---- MODULE Spec2Model ----
(***************************************************************************)
(* Tag capture pipeline of the H103 web tag reader (src/src/App.tsx).      *)
(*                                                                         *)
(* A JavaScript string is modelled as a sequence of one-character strings  *)
(* ("AB12" is <<"A","B","1","2">>), a key event by the value of e.key (a   *)
(* TLA+ string, so that e.key.length is Len(key)), a notification payload  *)
(* as a sequence of bytes 0..255.  A tag record is                         *)
(* [id, epc, rssi, ts]; Date.now() + Math.random() and Date.now() are      *)
(* modelled by one strictly increasing counter, clock.                     *)
(***************************************************************************)
EXTENDS Integers, Sequences, FiniteSets, TLC

VARIABLES
    mode,           \* useState 'hid' | 'ble'                    (line 19)
    connected,      \* useState(false)                           (line 20)
    listening,      \* useState(true): the capture gate          (line 21)
    tags,           \* useState([]): the session buffer          (line 23)
    buffer,         \* useState(""): the wedge assembly buffer   (line 24)
    autoDedup,      \* useState(true): the uniqueness setting    (line 26)
    listenerDedup,  \* autoDedup as captured by the addTag closure that the
                    \* registered characteristicvaluechanged listener calls
    clock,          \* source of Date.now() + Math.random()
    script,         \* input events still to be delivered (scripted runs)
    fed,            \* input events delivered so far (scripted runs)
    queue,          \* setTags updaters enqueued and not yet applied (batched runs)
    sinceEmpty      \* history: autoDedup has been enabled without a break
                    \* since some moment at which tags was empty

prog == <<mode, connected, listening, tags, buffer, autoDedup, listenerDedup, clock>>
vars == <<mode, connected, listening, tags, buffer, autoDedup, listenerDedup, clock,
          script, fed, queue, sinceEmpty>>

-----------------------------------------------------------------------------
(* Bounds of the model *)

\* Stands for the retention limit 2000 of slice(0, 2000) (line 52), scaled
\* down so that the buffer fills and evicts.
MaxTags == 2
\* Longest line typed into the wedge buffer by the free-running environment.
MaxLine == 2
\* Longest scripted sequence of input events.
MaxScript == 4
\* Longest line fed to the normalizer in the scripted runs.
MaxNormLine == 2
\* Most setTags updaters pending in one batch.
MaxQueue == 2
\* Records created in one run: one more than the buffer holds.
MaxClock == MaxTags + 1

-----------------------------------------------------------------------------
(* Characters *)

Digits == {"0", "1", "2", "3", "4", "5", "6", "7", "8", "9"}
Lower == {"a", "b", "c", "d", "e", "f", "g", "h", "i", "j", "k", "l", "m",
          "n", "o", "p", "q", "r", "s", "t", "u", "v", "w", "x", "y", "z"}
Upper == {"A", "B", "C", "D", "E", "F", "G", "H", "I", "J", "K", "L", "M",
          "N", "O", "P", "Q", "R", "S", "T", "U", "V", "W", "X", "Y", "Z"}
\* White space as String.prototype.trim sees it (the part that can be typed).
WhiteSpace == {" ", "\t", "\n"}

\* The negated character class of the regular expression of line 59:
\* a character matches (and is replaced) iff it is in none of the ranges.
regexMatches(c) == ~(c \in Digits \/ c \in Lower \/ c \in Upper
                     \/ c = "-" \/ c = "_" \/ c = ":")

-----------------------------------------------------------------------------
(* Pure helpers of the handlers *)

Min(a, b) == IF a < b THEN a ELSE b

\* Array.prototype.slice / String.prototype.slice with 0 <= start:
\* elements start .. end-1 (0-based), end clipped to the length.
slice(s, start, end) == SubSeq(s, start + 1, Min(end, Len(s)))

\* replace without the g flag: only the first match is replaced.
RECURSIVE replaceAll_first(_)
replaceAll_first(line) ==
    IF line = <<>> THEN <<>>
    ELSE IF regexMatches(Head(line)) THEN Tail(line)
    ELSE <<Head(line)>> \o replaceAll_first(Tail(line))

\* line.replace(/[^0-9a-zA-Z\-_:]/g, ""): every match is replaced by "".
RECURSIVE replaceAll(_)
replaceAll(line) ==
    IF line = <<>> THEN <<>>
    ELSE IF regexMatches(Head(line)) THEN replaceAll(Tail(line))
    ELSE <<Head(line)>> \o replaceAll(Tail(line))

RECURSIVE trimStart(_)
trimStart(s) ==
    IF s # <<>> /\ Head(s) \in WhiteSpace THEN trimStart(Tail(s)) ELSE s

RECURSIVE trimEnd(_)
trimEnd(s) ==
    IF s # <<>> /\ s[Len(s)] \in WhiteSpace THEN trimEnd(SubSeq(s, 1, Len(s) - 1)) ELSE s

trim(s) == trimEnd(trimStart(s))

\* prev.some((t) => t.epc === epc)
some(prev, epc) == \E i \in 1..Len(prev) : prev[i].epc = epc

\* addTag keeping one record too many: slice(0, 2001).
addTag_sliceOneMore(dedup, prev, epcRaw, now) ==
    LET epc == trim(epcRaw) IN
    IF epc = <<>> THEN prev
    ELSE IF dedup /\ some(prev, epc) THEN prev
    ELSE slice(<<[id |-> now, epc |-> epc, rssi |-> "undefined", ts |-> now]>> \o prev,
               0, MaxTags + 1)

\* addTag putting the new record behind the others: [...prev, record].
addTag_append(dedup, prev, epcRaw, now) ==
    LET epc == trim(epcRaw) IN
    IF epc = <<>> THEN prev
    ELSE IF dedup /\ some(prev, epc) THEN prev
    ELSE slice(prev \o <<[id |-> now, epc |-> epc, rssi |-> "undefined", ts |-> now]>>,
               0, MaxTags)

\* The state updater of addTag, applied to prev; dedup is the autoDedup of
\* the closure that made the call, now the value of the clock.
addTag(dedup, prev, epcRaw, now) ==
    LET epc == trim(epcRaw) IN
    IF epc = <<>> THEN prev
    ELSE IF dedup /\ some(prev, epc) THEN prev
    ELSE slice(<<[id |-> now, epc |-> epc, rssi |-> "undefined", ts |-> now]>> \o prev,
               0, MaxTags)

\* handleLine of the current render: listen and dedup are its listening and autoDedup.
handleLine(listen, dedup, prev, line, now) ==
    IF ~listen THEN prev
    ELSE LET cleaned == replaceAll(line) IN
         IF cleaned # <<>> THEN addTag(dedup, prev, cleaned, now) ELSE prev

-----------------------------------------------------------------------------
(* Notification payload *)

MarkerByte == 226
EpcBytes == 12

HexLower == <<"0", "1", "2", "3", "4", "5", "6", "7", "8", "9",
              "a", "b", "c", "d", "e", "f">>

\* b.toString(16): no leading zero.
toString16(b) ==
    IF b < 16 THEN <<HexLower[b + 1]>>
    ELSE <<HexLower[(b \div 16) + 1], HexLower[(b % 16) + 1]>>

\* padStart(2) without its second argument: pads with a space.
padStart2_space(s) == IF Len(s) < 2 THEN <<" ">> \o s ELSE s

\* s.padStart(2, "0")
padStart2(s) == IF Len(s) < 2 THEN <<"0">> \o s ELSE s

\* String.prototype.toUpperCase on one character (hexadecimal letters and
\* the characters it leaves alone).
toUpperCaseChar(c) ==
    CASE c = "a" -> "A" [] c = "b" -> "B" [] c = "c" -> "C"
      [] c = "d" -> "D" [] c = "e" -> "E" [] c = "f" -> "F"
      [] OTHER -> c

toUpperCase(s) == [i \in 1..Len(s) |-> toUpperCaseChar(s[i])]

\* Array.from(epcBytes).map(b => b.toString(16).padStart(2, "0")).join("")
RECURSIVE mapJoin(_)
mapJoin(bytes) ==
    IF bytes = <<>> THEN <<>>
    ELSE padStart2(toString16(Head(bytes))) \o mapJoin(Tail(bytes))

\* lastIndexOf in place of indexOf.
indexOf_last(data, x) ==
    IF \E i \in 1..Len(data) : data[i] = x
    THEN (CHOOSE i \in 1..Len(data) :
            data[i] = x /\ \A j \in (i + 1)..Len(data) : data[j] # x) - 1
    ELSE -1

\* indexOf answering 0 where it should answer -1.
indexOf_absentZero(data, x) ==
    IF \E i \in 1..Len(data) : data[i] = x
    THEN (CHOOSE i \in 1..Len(data) :
            data[i] = x /\ \A j \in 1..(i - 1) : data[j] # x) - 1
    ELSE 0

\* data.indexOf(x): 0-based index of the first element equal to x, -1 if none.
indexOf(data, x) ==
    IF \E i \in 1..Len(data) : data[i] = x
    THEN (CHOOSE i \in 1..Len(data) :
            data[i] = x /\ \A j \in 1..(i - 1) : data[j] # x) - 1
    ELSE -1

\* The listener's result on tags: value is [present, bytes]; dedup is the
\* autoDedup captured by the addTag the listener calls.
characteristicvaluechanged(dedup, prev, value, now) ==
    IF ~value.present THEN prev
    ELSE LET data == value.bytes
             idx == indexOf(data, MarkerByte) IN
         IF idx # -1
         THEN LET epcBytes == slice(data, idx, idx + EpcBytes)
                  epc == toUpperCase(mapJoin(epcBytes)) IN
              addTag(dedup, prev, epc, now)
         ELSE prev

-----------------------------------------------------------------------------
(* Handlers: each is the whole handler, on the program's variables *)

\* A record is created with a fresh id: the clock moves with each insertion.
Stamp == clock' = IF tags' = tags THEN clock ELSE clock + 1

\* onKeyDown without setBuffer("") after handleLine.
keyBuffer_noReset(listen, b, key) ==
    IF ~listen THEN b
    ELSE IF key = "Enter" THEN b
    ELSE IF Len(key) = 1 THEN Append(b, key)
    ELSE IF key = "Backspace" THEN SubSeq(b, 1, Len(b) - 1)
    ELSE b

\* Backspace removing the first character: slice(1) for slice(0, -1).
keyBuffer_dropFirst(listen, b, key) ==
    IF ~listen THEN b
    ELSE IF key = "Enter" THEN <<>>
    ELSE IF Len(key) = 1 THEN Append(b, key)
    ELSE IF key = "Backspace" THEN SubSeq(b, 2, Len(b))
    ELSE b

\* onKeyDown without the length test: every key but Enter and Backspace
\* is appended.
keyBuffer_anyKey(listen, b, key) ==
    IF ~listen THEN b
    ELSE IF key = "Enter" THEN <<>>
    ELSE IF key = "Backspace" THEN SubSeq(b, 1, Len(b) - 1)
    ELSE Append(b, key)

\* onKeyDown gating at the commit only: keys are accumulated while paused.
keyBuffer_gateAtCommit(listen, b, key) ==
    IF key = "Enter" THEN (IF listen THEN <<>> ELSE b)
    ELSE IF Len(key) = 1 THEN Append(b, key)
    ELSE IF key = "Backspace" THEN SubSeq(b, 1, Len(b) - 1)
    ELSE b

\* The wedge buffer after onKeyDown: listen is the listening of the render.
keyBuffer(listen, b, key) ==
    IF ~listen THEN b
    ELSE IF key = "Enter" THEN <<>>
    ELSE IF Len(key) = 1 THEN Append(b, key)
    ELSE IF key = "Backspace" THEN SubSeq(b, 1, Len(b) - 1)
    ELSE b

\* The session buffer after onKeyDown: only Enter reaches handleLine, with
\* the buffer of the render.
keyTags(listen, dedup, prev, b, key, now) ==
    IF ~listen THEN prev
    ELSE IF key = "Enter" THEN handleLine(listen, dedup, prev, b, now)
    ELSE prev

onKeyDown(key) ==
    /\ mode = "hid"                       \* the input exists in HID mode only
    /\ tags' = keyTags(listening, autoDedup, tags, buffer, key, clock)
    /\ buffer' = keyBuffer(listening, buffer, key)
    /\ Stamp
    /\ UNCHANGED <<mode, connected, listening, autoDedup, listenerDedup>>

notification(value) ==
    /\ connected
    /\ tags' = characteristicvaluechanged(listenerDedup, tags, value, clock)
    /\ Stamp
    /\ UNCHANGED <<mode, connected, listening, buffer, autoDedup, listenerDedup>>

\* connectBLE, successful: the listener registered calls the addTag of the
\* render in which Connect was clicked.
connectBLE ==
    /\ mode = "ble" /\ ~connected
    /\ connected' = TRUE
    /\ listenerDedup' = autoDedup
    /\ UNCHANGED <<mode, listening, tags, buffer, autoDedup, clock>>

disconnectBLE ==
    /\ mode = "ble" /\ connected
    /\ connected' = FALSE
    /\ UNCHANGED <<mode, listening, tags, buffer, autoDedup, listenerDedup, clock>>

gattserverdisconnected ==
    /\ connected
    /\ connected' = FALSE
    /\ UNCHANGED <<mode, listening, tags, buffer, autoDedup, listenerDedup, clock>>

\* clearTags honouring the gate.
clearTags_gated ==
    /\ tags' = IF listening THEN <<>> ELSE tags
    /\ UNCHANGED <<mode, connected, listening, buffer, autoDedup, listenerDedup, clock>>

clearTags ==
    /\ tags' = <<>>
    /\ UNCHANGED <<mode, connected, listening, buffer, autoDedup, listenerDedup, clock>>

\* Switching the mode also starting a new session.
setMode_reset(m) ==
    /\ mode' = m
    /\ tags' = <<>>
    /\ UNCHANGED <<connected, listening, buffer, autoDedup, listenerDedup, clock>>

setMode(m) ==
    /\ mode' = m
    /\ UNCHANGED <<connected, listening, tags, buffer, autoDedup, listenerDedup, clock>>

setListening ==
    /\ listening' = ~listening
    /\ UNCHANGED <<mode, connected, tags, buffer, autoDedup, listenerDedup, clock>>

setAutoDedup ==
    /\ autoDedup' = ~autoDedup
    /\ UNCHANGED <<mode, connected, listening, tags, buffer, listenerDedup, clock>>

-----------------------------------------------------------------------------
(* The free-running program *)

MainChars == {"A", " "}
MainKeys == MainChars \cup {"Enter", "Backspace", "Shift"}
NoValue == [present |-> FALSE, bytes |-> <<>>]
Payload(bytes) == [present |-> TRUE, bytes |-> bytes]
MainValues == {NoValue, Payload(<<1>>), Payload(<<226>>), Payload(<<1, 226, 17>>)}

InitProg ==
    /\ mode = "hid"
    /\ connected = FALSE
    /\ listening = TRUE
    /\ tags = <<>>
    /\ buffer = <<>>
    /\ autoDedup = TRUE
    /\ listenerDedup = TRUE
    /\ clock = 0

Init ==
    /\ InitProg
    /\ script = <<>>
    /\ fed = <<>>
    /\ queue = <<>>
    /\ sinceEmpty = TRUE

History == sinceEmpty' = (autoDedup' /\ (sinceEmpty \/ tags' = <<>>))

\* The environment types at most MaxLine characters and the clock is capped.
Bounded == Len(buffer') <= MaxLine /\ clock' <= MaxClock

Free == UNCHANGED <<script, fed, queue>> /\ History /\ Bounded

KeyEvent == \E key \in MainKeys : onKeyDown(key) /\ Free
NotifyEvent == \E value \in MainValues : notification(value) /\ Free
Connect == connectBLE /\ Free
Disconnect == disconnectBLE /\ Free
LinkLost == gattserverdisconnected /\ Free
Clear == clearTags /\ Free
SwitchMode == \E m \in {"hid", "ble"} : setMode(m) /\ Free
PauseResume == setListening /\ Free
ToggleDedup == setAutoDedup /\ Free

Next ==
    \/ KeyEvent
    \/ NotifyEvent
    \/ Connect
    \/ Disconnect
    \/ LinkLost
    \/ Clear
    \/ SwitchMode
    \/ PauseResume
    \/ ToggleDedup

Spec == Init /\ [][Next]_vars

-----------------------------------------------------------------------------
(* Scripted runs: the input events are drawn at the start and delivered in  *)
(* order, so that a state records which events led to it.  The runs start   *)
(* in HID mode with the notification listener registered under the initial  *)
(* settings (reached from Init by SwitchMode, Connect, SwitchMode).         *)

Key(k) == [type |-> "key", key |-> k, value |-> NoValue]
Notify(v) == [type |-> "notify", key |-> "", value |-> v]
Cmd(c) == [type |-> c, key |-> "", value |-> NoValue]

BoundedSeq(S, n) == UNION {[1..k -> S] : k \in 0..n}

ScriptEvents ==
    {Key(k) : k \in MainKeys}
    \cup {Notify(Payload(<<226>>)), Notify(Payload(<<1, 226, 17>>)),
          Notify(Payload(<<1, 2, 3>>))}
    \cup {Cmd("pause"), Cmd("clear"), Cmd("dedup")}

\* The wedge example of the specification, twice.
ExampleKeys == <<Key("A"), Key("B"), Key("1"), Key("2"), Key("Enter")>>
ExampleScript == ExampleKeys \o ExampleKeys

\* Lines for the normalizer: the ends of each range of the character class,
\* their neighbours outside it, and white space.
NormChars == {"0", "9", "a", "z", "A", "Z", "-", "_", ":",
              "/", ";", "@", "[", "^", "{", ".", " ", "#"}
NormScripts ==
    {[i \in 1..(Len(line) + 1) |->
        IF i <= Len(line) THEN Key(line[i]) ELSE Key("Enter")] :
     line \in BoundedSeq(NormChars, MaxNormLine)}

\* Payloads for the parser: the examples of the specification, every short
\* payload over a few bytes, and a marker at offset k followed by t bytes.
ExamplePayload == <<1, 226, 17, 34, 51, 68, 85, 102, 119, 136, 153, 170, 187, 204>>
AbsentPayload == <<1, 2, 3>>
MarkerAt(k, t, second) ==
    [i \in 1..(k + 1 + t) |->
        IF i <= k THEN 10
        ELSE IF i = k + 1 THEN MarkerByte
        ELSE IF i = k + 1 + second THEN MarkerByte
        ELSE ((i - k - 1) * 17) % 256]
ParseInputs ==
    {ExamplePayload, AbsentPayload}
    \cup BoundedSeq({1, 10, 171, MarkerByte}, 3)
    \cup {MarkerAt(k, t, second) : k \in 0..2, t \in 0..13, second \in {0, 2}}
ParseScripts ==
    {<<Notify(Payload(p))>> : p \in ParseInputs}
    \cup {<<Notify(Payload(p)), Notify(Payload(q))>> :
          p \in {<<226>>, ExamplePayload}, q \in {AbsentPayload, <<>>, <<10>>}}
    \cup {<<Notify(NoValue)>>}

Scripts ==
    BoundedSeq(ScriptEvents, MaxScript)
    \cup {ExampleScript} \cup NormScripts \cup ParseScripts

InitScript ==
    /\ mode = "hid"
    /\ connected = TRUE
    /\ listening = TRUE
    /\ tags = <<>>
    /\ buffer = <<>>
    /\ autoDedup = TRUE
    /\ listenerDedup = TRUE
    /\ clock = 0
    /\ script \in Scripts
    /\ fed = <<>>
    /\ queue = <<>>
    /\ sinceEmpty = TRUE

Fed ==
    /\ script # <<>> /\ script' = Tail(script) /\ fed' = Append(fed, Head(script))
    /\ UNCHANGED queue
    /\ History

DeliverKey == script # <<>> /\ Head(script).type = "key" /\ onKeyDown(Head(script).key) /\ Fed
DeliverNotify ==
    script # <<>> /\ Head(script).type = "notify" /\ notification(Head(script).value) /\ Fed
DeliverPause == script # <<>> /\ Head(script).type = "pause" /\ setListening /\ Fed
DeliverClear == script # <<>> /\ Head(script).type = "clear" /\ clearTags /\ Fed
DeliverDedup == script # <<>> /\ Head(script).type = "dedup" /\ setAutoDedup /\ Fed

NextScript ==
    \/ DeliverKey
    \/ DeliverNotify
    \/ DeliverPause
    \/ DeliverClear
    \/ DeliverDedup

SpecScript == InitScript /\ [][NextScript]_vars

\* The start of the scripted runs, as a state of the free-running program.
ScriptStart ==
    /\ mode = "hid" /\ connected /\ listening /\ tags = <<>> /\ buffer = <<>>
    /\ autoDedup /\ listenerDedup /\ clock = 0

-----------------------------------------------------------------------------
(* Batched runs: setTags(updater) enqueues the updater, and React applies    *)
(* the pending updaters in order, each to the result of the one before, when *)
(* it next renders.  A notification is a native event and only enqueues; a   *)
(* key event is a React event and its batch is applied when the handler      *)
(* returns, after the updaters already pending.  The other events are        *)
(* React events taken with nothing pending.                                  *)

\* The epcRaw the listener passes to addTag, if any (lines 110-121).
listenerOffers(value) ==
    IF ~value.present THEN <<>>
    ELSE LET data == value.bytes
             idx == indexOf(data, MarkerByte) IN
         IF idx # -1
         THEN <<toUpperCase(mapJoin(slice(data, idx, idx + EpcBytes)))>>
         ELSE <<>>

\* The epcRaw onKeyDown passes to addTag through handleLine, if any.
keyOffers(listen, b, key) ==
    IF listen /\ key = "Enter" /\ replaceAll(b) # <<>> THEN <<replaceAll(b)>> ELSE <<>>

\* addTag up to setTags: the updater enqueued, with the autoDedup of its closure.
updaters(dedup, offers) ==
    [i \in 1..Len(offers) |-> [dedup |-> dedup, epcRaw |-> offers[i]]]

\* React applying the pending updaters: each sees the result of the one before.
RECURSIVE applyUpdaters(_, _, _)
applyUpdaters(prev, q, now) ==
    IF q = <<>> THEN [tags |-> prev, clock |-> now]
    ELSE LET next == addTag(q[1].dedup, prev, q[1].epcRaw, now)
         IN applyUpdaters(next, Tail(q), IF next = prev THEN now ELSE now + 1)

notificationBatched(value) ==
    /\ connected
    /\ listenerOffers(value) # <<>>
    /\ Len(queue) < MaxQueue
    /\ queue' = queue \o updaters(listenerDedup, listenerOffers(value))
    /\ UNCHANGED <<mode, connected, listening, tags, buffer, autoDedup, listenerDedup, clock>>

render ==
    /\ queue # <<>>
    /\ LET r == applyUpdaters(tags, queue, clock) IN tags' = r.tags /\ clock' = r.clock
    /\ queue' = <<>>
    /\ UNCHANGED <<mode, connected, listening, buffer, autoDedup, listenerDedup>>

onKeyDownBatched(key) ==
    /\ mode = "hid"
    /\ LET q == queue \o updaters(autoDedup, keyOffers(listening, buffer, key))
           r == applyUpdaters(tags, q, clock)
       IN tags' = r.tags /\ clock' = r.clock
    /\ buffer' = keyBuffer(listening, buffer, key)
    /\ queue' = <<>>
    /\ UNCHANGED <<mode, connected, listening, autoDedup, listenerDedup>>

Batched == UNCHANGED <<script, fed>> /\ History /\ Bounded
NothingPending == queue = <<>>

BatchNotify == \E value \in MainValues : notificationBatched(value) /\ Batched
BatchRender == render /\ Batched
BatchKey == \E key \in MainKeys : onKeyDownBatched(key) /\ Batched
BatchConnect == NothingPending /\ Connect
BatchDisconnect == NothingPending /\ Disconnect
BatchLinkLost == NothingPending /\ LinkLost
BatchClear == NothingPending /\ Clear
BatchSwitchMode == NothingPending /\ SwitchMode
BatchPauseResume == NothingPending /\ PauseResume
BatchToggleDedup == NothingPending /\ ToggleDedup

NextBatch ==
    \/ BatchNotify
    \/ BatchRender
    \/ BatchKey
    \/ BatchConnect
    \/ BatchDisconnect
    \/ BatchLinkLost
    \/ BatchClear
    \/ BatchSwitchMode
    \/ BatchPauseResume
    \/ BatchToggleDedup

SpecBatch == Init /\ [][NextBatch]_vars

-----------------------------------------------------------------------------
(* Vocabulary of the claims *)

Last(s) == s[Len(s)]
IsEnter(e) == e.type = "key" /\ e.key = "Enter"
IsDelete(e) == e.type = "key" /\ e.key = "Backspace"
IsChar(e) == e.type = "key" /\ Len(e.key) = 1
Delivering == script # <<>>

\* No two records of the buffer have the same identifier.
NoDuplicates(buf) ==
    \A i, j \in 1..Len(buf) : i # j => buf[i].epc # buf[j].epc

Epcs(buf) == [i \in 1..Len(buf) |-> buf[i].epc]

-----------------------------------------------------------------------------
\* C1 (gate suppression): while the capture gate is closed, no candidate
\* arriving from either mode - a key event of the wedge or a notification
\* payload - changes the session buffer.
C1_GateSuppression ==
    [][(~listening /\ (KeyEvent \/ NotifyEvent)) => tags' = tags]_vars

\* C2 (uniqueness over offers): starting from an empty buffer, as long as
\* autoDedup stays enabled the buffer holds no two records with the same
\* identifier.
C2_UniqueWhileEnabled == sinceEmpty => NoDuplicates(tags)

\* C3 (uniqueness as a state invariant): in every reachable state in which
\* autoDedup is enabled, no two records of the buffer share an identifier.
C3_UniqueWhenEnabled == autoDedup => NoDuplicates(tags)

\* C4 (bounded retention): the buffer never holds more than MaxTags records;
\* an accepted offer puts one new record in front of the records already
\* there, and when the buffer was full it drops exactly one of them, the
\* last, which is the oldest; the others stay, in order.
AcceptedOffer ==
    /\ Delivering /\ Head(script).type \in {"key", "notify"}
    /\ tags' # tags
EvictsOldest ==
    /\ tags' # <<>>
    /\ \A i \in 1..Len(tags) : tags'[1].id # tags[i].id
    /\ IF Len(tags) < MaxTags
       THEN Tail(tags') = tags
       ELSE /\ Tail(tags') = SubSeq(tags, 1, Len(tags) - 1)
            /\ \A i \in 1..Len(tags) : tags[Len(tags)].id <= tags[i].id
C4_BoundedRetention ==
    /\ [](Len(tags) <= MaxTags)
    /\ [][AcceptedOffer => EvictsOldest]_vars

\* Three accepted offers of different identifiers: the first one is gone.
C4_Witness ==
    /\ Len(fed) = MaxTags + 2
    /\ \A i \in 1..Len(fed) : fed[i].type \in {"key", "notify"}
    /\ clock = MaxTags + 1
    /\ Len(tags) = MaxTags
    /\ tags[MaxTags].id = 1

\* C5 as stated (wedge commit resets buffer): after an Enter key event the
\* wedge buffer is empty, whatever was emitted.
C5_EnterEmptiesBuffer ==
    (fed # <<>> /\ IsEnter(Last(fed))) => buffer = <<>>

\* C5 as amended: an Enter key event handled while the capture gate is open
\* leaves the wedge buffer empty, whatever was emitted; while the gate is
\* closed the key event is ignored and the wedge buffer keeps its contents.
C5_EnterEmptiesBufferWhenOpen ==
    [][(Delivering /\ IsEnter(Head(script)))
        => (IF listening THEN buffer' = <<>> ELSE buffer' = buffer)]_vars

\* A character, then Enter, with the gate open.
C5_Witness ==
    /\ Len(fed) >= 2
    /\ IsEnter(Last(fed)) /\ IsChar(fed[Len(fed) - 1])
    /\ \A i \in 1..Len(fed) : fed[i].type = "key"
    /\ listening
    /\ buffer = <<>>

-----------------------------------------------------------------------------
(* The claims' own reading of the wedge line and of the normalizer *)

\* The character set of the normalizer, as the specification lists it.
InCharset(c) == c \in Digits \cup Lower \cup Upper \cup {"-", "_", ":"}
Filtered(str) == SelectSeq(str, InCharset)

\* The events delivered since the previous Enter.
LastEnter(f) ==
    IF \E i \in 1..Len(f) : IsEnter(f[i])
    THEN CHOOSE i \in 1..Len(f) : IsEnter(f[i]) /\ \A j \in (i + 1)..Len(f) : ~IsEnter(f[j])
    ELSE 0
SinceCommit(f) == SubSeq(f, LastEnter(f) + 1, Len(f))

\* The string obtained by applying key events in order: a character is
\* appended, a delete removes the last character (nothing on the empty
\* string), anything else leaves the string alone.
RECURSIVE Typed(_)
Typed(evs) ==
    IF evs = <<>> THEN <<>>
    ELSE LET before == Typed(SubSeq(evs, 1, Len(evs) - 1))
             e == Last(evs) IN
         IF IsChar(e) THEN Append(before, e.key)
         ELSE IF IsDelete(e) THEN
              (IF before = <<>> THEN <<>> ELSE SubSeq(before, 1, Len(before) - 1))
         ELSE before

GateOpenThroughout(f) == \A i \in 1..Len(f) : f[i].type # "pause"
HasEpc(buf, epc) == \E i \in 1..Len(buf) : buf[i].epc = epc

\* C6 (wedge end-to-end): with the gate open throughout, Enter offers the
\* normalization of the string typed since the previous commit: nothing is
\* added when it is empty or, under autoDedup, already in the buffer, and
\* otherwise it is the identifier of the new front record.  The keys
\* A, B, 1, 2, Enter give one record AB12, and the same keys again none.
CommitOffersTypedLine ==
    (Delivering /\ IsEnter(Head(script)) /\ GateOpenThroughout(fed))
    => LET candidate == Filtered(Typed(SinceCommit(fed))) IN
       IF candidate = <<>> \/ (autoDedup /\ HasEpc(tags, candidate))
       THEN tags' = tags
       ELSE /\ tags' # <<>>
            /\ tags'[1].epc = candidate
            /\ Len(tags') = Min(Len(tags) + 1, MaxTags)
ExampleYieldsAB12 ==
    (fed = ExampleKeys \/ fed = ExampleScript)
    => Epcs(tags) = << <<"A", "B", "1", "2">> >>
C6_WedgeEndToEnd ==
    /\ []ExampleYieldsAB12
    /\ [][CommitOffersTypedLine]_vars

\* The example run twice: one record.
C6_Witness == fed = ExampleScript /\ Len(tags) = 1 /\ buffer = <<>>

\* C7 (clear): whatever came before, gate open or closed, autoDedup on or
\* off, the buffer is empty after clear.
C7_ClearEmpties == (fed # <<>> /\ Last(fed).type = "clear") => tags = <<>>

\* A record is captured, the gate is closed, and clear is invoked.
C7_Witness ==
    /\ Len(fed) = 3
    /\ fed[1].type = "notify" /\ fed[2].type = "pause" /\ fed[3].type = "clear"
    /\ clock = 1 /\ ~listening
    /\ tags = <<>>

-----------------------------------------------------------------------------
(* The claims' own reading of the notification payload *)

HexUpper == <<"0", "1", "2", "3", "4", "5", "6", "7", "8", "9",
              "A", "B", "C", "D", "E", "F">>
HasMarker(bytes) == \E i \in 1..Len(bytes) : bytes[i] = MarkerByte
FirstMarker(bytes) ==
    CHOOSE i \in 1..Len(bytes) :
        bytes[i] = MarkerByte /\ \A j \in 1..(i - 1) : bytes[j] # MarkerByte
\* Two uppercase hexadecimal digits per byte, for the bytes from the first
\* marker on, twelve of them or as many as remain.
ExpectedEpc(bytes) ==
    LET first == FirstMarker(bytes)
        n == Min(12, Len(bytes) - first + 1)
    IN [k \in 1..(2 * n) |->
          LET b == bytes[first + ((k - 1) \div 2)] IN
          IF k % 2 = 1 THEN HexUpper[(b \div 16) + 1] ELSE HexUpper[(b % 16) + 1]]

\* C8 (marker extraction): a payload containing 0xE2, arriving on an empty
\* buffer, yields one record whose identifier is the uppercase hexadecimal of
\* the bytes from the first 0xE2 on, twelve of them or as many as remain; the
\* 14-byte example yields E2112233445566778899AABB.
C8_MarkerExtraction ==
    /\ (Len(fed) = 1 /\ fed[1].type = "notify" /\ fed[1].value.present
        /\ HasMarker(fed[1].value.bytes))
       => Epcs(tags) = <<ExpectedEpc(fed[1].value.bytes)>>
    /\ fed = <<Notify(Payload(ExamplePayload))>>
       => Epcs(tags) = << <<"E", "2", "1", "1", "2", "2", "3", "3", "4", "4", "5", "5",
                            "6", "6", "7", "7", "8", "8", "9", "9", "A", "A", "B", "B">> >>

\* A marker three bytes from the end, after an earlier byte: a short identifier.
C8_Witness ==
    /\ fed = <<Notify(Payload(MarkerAt(1, 2, 0)))>>
    /\ Epcs(tags) = << <<"E", "2", "1", "1", "2", "2">> >>

\* C9 (marker absent): a notification whose payload has no 0xE2 leaves the
\* session buffer, the wedge buffer and the gate as they were.
C9_MarkerAbsent ==
    [][(Delivering /\ Head(script).type = "notify" /\ Head(script).value.present
        /\ ~HasMarker(Head(script).value.bytes))
       => UNCHANGED <<tags, buffer, listening>>]_vars

\* The payload 01 02 03 arrives after a record was captured.
C9_Witness ==
    /\ Len(fed) = 2
    /\ fed[1] = Notify(Payload(<<226>>))
    /\ fed[2] = Notify(Payload(AbsentPayload))
    /\ Len(tags) = 1

\* C10 (normalization): for a line s of characters committed with the gate
\* open, the normalizer's result is s without the characters outside
\* [0-9a-zA-Z-_:], in order, and normalizing it again changes nothing.
TypedLine == [i \in 1..(Len(fed) - 1) |-> fed[i].key]
Stored == IF tags = <<>> THEN <<>> ELSE tags[1].epc
C10_Normalization ==
    (fed # <<>> /\ IsEnter(Last(fed)) /\ \A i \in 1..(Len(fed) - 1) : IsChar(fed[i]))
    => /\ Stored = Filtered(TypedLine)
       /\ replaceAll(TypedLine) = Filtered(TypedLine)
       /\ replaceAll(replaceAll(TypedLine)) = replaceAll(TypedLine)
       /\ replaceAll(Stored) = Stored

\* A line with a character outside the set on each side of one inside it.
C10_Witness ==
    /\ fed = <<Key("/"), Key(":"), Key("Enter")>>
    /\ Epcs(tags) = << <<":">> >>

-----------------------------------------------------------------------------
\* C11 (atomic check-then-insert): when a batch of offers is applied with
\* autoDedup enabled, an identifier that was not in the buffer before the
\* batch is in at most one record after it, however many offers of the
\* batch carried it.
Count(buf, epc) == Cardinality({i \in 1..Len(buf) : buf[i].epc = epc})
BatchApplied == queue' = <<>> /\ tags' # tags
C11_AtomicCheckThenInsert ==
    [][(autoDedup /\ BatchApplied)
       => \A i \in 1..Len(tags') :
            ~HasEpc(tags, tags'[i].epc) => Count(tags', tags'[i].epc) <= 1]_vars

\* C12 (duplicate rejection): with autoDedup enabled, an offer whose
\* identifier is already in the buffer leaves the buffer as it was; so a
\* key event or notification that does change the buffer brought an
\* identifier that was not in it.
C12_DuplicateRejected ==
    [][(autoDedup /\ (KeyEvent \/ NotifyEvent) /\ tags' # tags)
       => ~HasEpc(tags, tags'[1].epc)]_vars

\* C13 as stated (accumulation while paused): while the gate is closed a
\* single-character key event is still appended to the wedge buffer, and no
\* Enter event commits a record.
C13_AccumulatesWhilePaused ==
    [][(Delivering /\ ~listening /\ Head(script).type = "key")
       => /\ IsChar(Head(script)) => buffer' = Append(buffer, Head(script).key)
          /\ IsEnter(Head(script)) => tags' = tags]_vars

\* C13 as amended: while the gate is closed every key event is ignored: a
\* single-character key is not appended, the wedge buffer keeps the contents
\* it had when the gate closed, and no Enter event commits a record.
C13_KeysIgnoredWhilePaused ==
    [][(Delivering /\ ~listening /\ Head(script).type = "key")
       => UNCHANGED <<buffer, tags>>]_vars

\* A character typed, the gate closed, the character typed again.
C13_Witness ==
    /\ fed = <<Key("A"), Cmd("pause"), Key("A")>>
    /\ ~listening
    /\ buffer = <<"A">>

\* C14 (stored identifiers are well-formed): every record of the buffer has
\* a non-empty identifier made of characters of [0-9a-zA-Z-_:] only,
\* whichever mode produced it, and committing a line that normalizes to the
\* empty string (the empty line included) adds no record.
WellFormed(epc) == epc # <<>> /\ \A k \in 1..Len(epc) : InCharset(epc[k])
C14_WellFormedIdentifiers ==
    /\ [](\A i \in 1..Len(tags) : WellFormed(tags[i].epc))
    /\ [][(Delivering /\ IsEnter(Head(script)) /\ Filtered(buffer) = <<>>)
          => tags' = tags]_vars

\* A record from a notification, then a line of one space committed.
C14_Witness ==
    /\ fed = <<Notify(Payload(<<1, 226, 17>>)), Key(" "), Key("Enter")>>
    /\ Epcs(tags) = << <<"E", "2", "1", "1">> >>
    /\ buffer = <<>>

\* C15 (newest-first ordering): an accepted offer puts the new record at
\* the front and keeps the records that remain in the order they had; so of
\* any two records of the buffer the one nearer the front was inserted later.
NewestFirst(buf) == \A i, j \in 1..Len(buf) : i < j => buf[i].id > buf[j].id
InsertsAtFront ==
    /\ tags' # <<>>
    /\ tags'[1].id = clock
    /\ \A i \in 1..Len(tags) : tags[i].id < clock
    /\ Tail(tags') = SubSeq(tags, 1, Len(tags') - 1)
C15_NewestFirst ==
    /\ []NewestFirst(tags)
    /\ [][((KeyEvent \/ NotifyEvent) /\ tags' # tags) => InsertsAtFront]_vars

\* Two records of different identifiers, the later one in front.
C15_Witness ==
    /\ Len(tags) = 2
    /\ tags[1].id = 1 /\ tags[2].id = 0
    /\ tags[1].epc # tags[2].epc

\* C16 (session buffer frame): the buffer changes only by an accepted offer
\* or by clear; a step that toggles the gate, toggles autoDedup or switches
\* the mode, and a key event other than Enter, leave it as it was; and
\* clear leaves the gate and the wedge buffer as they were.
NonDelimiterKey == \E key \in MainKeys \ {"Enter"} : onKeyDown(key)
C16_SessionBufferFrame ==
    [][/\ (listening' # listening \/ autoDedup' # autoDedup \/ mode' # mode)
          => tags' = tags
       /\ NonDelimiterKey => tags' = tags
       /\ tags' # tags
          => \/ tags' = <<>>
             \/ (KeyEvent \/ NotifyEvent) /\ InsertsAtFront
       /\ (tags # <<>> /\ tags' = <<>>) => UNCHANGED <<listening, buffer>>]_vars

\* A line committed in HID mode with the gate open, a character typed after
\* it, and since then the gate closed and the mode switched: the record stays.
C16_Witness ==
    /\ clock = 1 /\ Epcs(tags) = << <<"A">> >>
    /\ buffer = <<"A">>
    /\ ~listening /\ mode = "ble"

\* C17 (non-character keys ignored): a key event whose key is neither a
\* single character, nor Backspace, nor Enter leaves the wedge buffer and
\* the session buffer as they were, whether the gate is open or closed.
OtherKey(e) ==
    e.type = "key" /\ Len(e.key) # 1 /\ e.key \notin {"Enter", "Backspace"}
C17_OtherKeysIgnored ==
    [][(Delivering /\ OtherKey(Head(script)))
       => UNCHANGED <<buffer, tags>>]_vars

\* Shift pressed after a character, with the gate open: the character stays.
C17_Witness ==
    /\ fed = <<Key("A"), Key("Shift")>>
    /\ listening /\ buffer = <<"A">> /\ tags = <<>>

\* C18 (settings read at offer time): a notification is deduplicated by the
\* autoDedup in effect when it arrives, so the session buffer after it is the
\* one the listener computes with the current setting.
C18_SettingsReadAtOfferTime ==
    [][\A value \in MainValues :
         (notification(value) /\ Free)
         => tags' = characteristicvaluechanged(autoDedup, tags, value, clock)]_vars

====
